---- MODULE Spec2Model ----
(***************************************************************************)
(* Model of MAVLink/mavlink_conversions.h: the six conversions between     *)
(* quaternions, direction-cosine matrices and Euler angles.                *)
(*                                                                         *)
(* Numbers.  float/double values are modelled in exact arithmetic as       *)
(* normalised rationals [n, d] with d > 0 (rounding of the float stores is *)
(* not modelled).  Values that are not rationals are the records with      *)
(* d = 0: NaN, PInf, NInf, and Surd (the square root of a non-square, which*)
(* the rational model cannot hold); they are absorbing in arithmetic and   *)
(* compare false.                                                          *)
(*                                                                         *)
(* Angles.  A float holding an angle in radians is modelled by the point   *)
(* [c, s] = (cos, sin) of the angle on the unit circle plus a winding bit  *)
(* k: the angle is the principal value in (-pi, pi] when k = 0 and that    *)
(* value plus or minus 2*pi when k = 1.  asin and atan2f return k = 0.     *)
(***************************************************************************)
EXTENDS Integers, Sequences, FiniteSets

VARIABLES
    pc,          \* position of the caller / of mavlink_dcm_to_quaternion
    euler,       \* (roll, pitch, yaw) handed to the euler_to_* functions
    half,        \* the six locals cosPhi_2 .. sinPsi_2 of euler_to_quaternion
    qin,         \* quaternion[4] handed to quaternion_to_dcm / _to_euler
    dcm,         \* dcm[3][3]
    quaternion,  \* quaternion[4] written by mavlink_dcm_to_quaternion
    written,     \* indices of quaternion[] stored by dcm_to_quaternion, in order
    tr, s, dcm_i, i, dcm_j, dcm_k,   \* locals of mavlink_dcm_to_quaternion
    eout,        \* (*roll, *pitch, *yaw) written by dcm_to_euler / quaternion_to_euler
    dcm2         \* dcm[3][3] written by euler_to_dcm from eout

vars == <<pc, euler, half, qin, dcm, quaternion, written,
          tr, s, dcm_i, i, dcm_j, dcm_k, eout, dcm2>>

(***************************************************************************)
(* Bounds of the input sets.                                               *)
(***************************************************************************)
\* unit quaternion inputs are (a,b,c,d)/D with a,b,c,d in -QMax..QMax and
\* D*D = a*a + b*b + c*c + d*d
QMax == 4
\* non-unit quaternion inputs are the integer (a,b,c,d) in -IMax..IMax
IMax == 2
\* angle inputs are the rational points (x,y)/h of the circle, |x|,|y| <= AMax
AMax == 4
\* the near-gimbal-lock probe pitch has tan(pitch/2 + pi/4)-parameter NearLockM
NearLockM == 2500

(***************************************************************************)
(* Exact arithmetic standing for float / double.                           *)
(***************************************************************************)
Abs(x) == IF x < 0 THEN -x ELSE x

RECURSIVE GCD(_, _)
GCD(x, y) == IF y = 0 THEN x ELSE GCD(y, x % y)

Rat(n, d) ==
    LET g  == GCD(Abs(n), Abs(d))
        sg == IF d < 0 THEN -1 ELSE 1
    IN  [n |-> sg * (n \div g), d |-> Abs(d) \div g]

NaN  == [n |-> 0, d |-> 0]
PInf == [n |-> 1, d |-> 0]
NInf == [n |-> -1, d |-> 0]
Surd == [n |-> 2, d |-> 0]
\* content of storage the function has not written yet
Uninit == [n |-> 3, d |-> 0]

IsNum(x) == x.d > 0

Zero == [n |-> 0, d |-> 1]
One  == [n |-> 1, d |-> 1]
Two  == [n |-> 2, d |-> 1]
Half == [n |-> 1, d |-> 2]

RNeg(x) ==
    IF IsNum(x) THEN [n |-> -x.n, d |-> x.d]
    ELSE IF x = PInf THEN NInf ELSE IF x = NInf THEN PInf ELSE x

RAdd(x, y) ==
    IF ~IsNum(x) THEN x ELSE IF ~IsNum(y) THEN y
    ELSE LET g == GCD(x.d, y.d)
         IN  Rat(x.n * (y.d \div g) + y.n * (x.d \div g), (x.d \div g) * y.d)

RSub(x, y) == RAdd(x, RNeg(y))

RMul(x, y) ==
    IF ~IsNum(x) THEN x ELSE IF ~IsNum(y) THEN y
    ELSE LET g1 == GCD(Abs(x.n), y.d)
             g2 == GCD(Abs(y.n), x.d)
         IN  [n |-> (x.n \div g1) * (y.n \div g2),
              d |-> (x.d \div g2) * (y.d \div g1)]

RDiv(x, y) ==
    IF ~IsNum(x) THEN x ELSE IF ~IsNum(y) THEN y
    ELSE IF y.n = 0
         THEN (IF x.n = 0 THEN NaN ELSE IF x.n > 0 THEN PInf ELSE NInf)
         ELSE RMul(x, [n |-> (IF y.n < 0 THEN -y.d ELSE y.d), d |-> Abs(y.n)])

RGt(x, y) == IsNum(x) /\ IsNum(y) /\ RSub(x, y).n > 0
RLt(x, y) == RGt(y, x)
RGe(x, y) == IsNum(x) /\ IsNum(y) /\ RSub(x, y).n >= 0

RECURSIVE SqrtSearch(_, _, _)
SqrtSearch(n, lo, hi) ==
    IF lo >= hi THEN lo
    ELSE LET mid == (lo + hi + 1) \div 2
         IN  IF mid * mid <= n THEN SqrtSearch(n, mid, hi)
                               ELSE SqrtSearch(n, lo, mid - 1)

\* floor of the square root of a natural number below 2^31
ISqrt(n) == SqrtSearch(n, 0, IF n < 46340 THEN n ELSE 46340)

\* sqrt / sqrtf: NaN on a negative argument
RSqrt(x) ==
    IF ~IsNum(x) THEN x
    ELSE IF x.n < 0 THEN NaN
    ELSE LET rn == ISqrt(x.n)
             rd == ISqrt(x.d)
         IN  IF rn * rn = x.n /\ rd * rd = x.d THEN [n |-> rn, d |-> rd] ELSE Surd

(***************************************************************************)
(* float[3][3] and float[4], indexed from 0 as in C.                       *)
(***************************************************************************)
Mat(r0, r1, r2) ==
    [r \in 0..2 |-> [c \in 0..2 |->
        (IF r = 0 THEN r0 ELSE IF r = 1 THEN r1 ELSE r2)[c + 1]]]

Vec4(w, x, y, z) ==
    [n \in 0..3 |-> IF n = 0 THEN w ELSE IF n = 1 THEN x ELSE IF n = 2 THEN y ELSE z]

NoMat  == [r \in 0..2 |-> [c \in 0..2 |-> Uninit]]
NoQuat == [n \in 0..3 |-> Uninit]

(***************************************************************************)
(* mavlink_quaternion_to_dcm                                               *)
(***************************************************************************)
mavlink_quaternion_to_dcm_SignSlip(quat) ==
    LET a == quat[0]
        b == quat[1]
        c == quat[2]
        d == quat[3]
        aSq == RMul(a, a)
        bSq == RMul(b, b)
        cSq == RMul(c, c)
        dSq == RMul(d, d)
    IN  Mat(<<RSub(RSub(RAdd(aSq, bSq), cSq), dSq),
              RMul(Two, RAdd(RMul(b, c), RMul(a, d))),
              RMul(Two, RAdd(RMul(a, c), RMul(b, d)))>>,
            <<RMul(Two, RAdd(RMul(b, c), RMul(a, d))),
              RSub(RAdd(RSub(aSq, bSq), cSq), dSq),
              RMul(Two, RSub(RMul(c, d), RMul(a, b)))>>,
            <<RMul(Two, RSub(RMul(b, d), RMul(a, c))),
              RMul(Two, RAdd(RMul(a, b), RMul(c, d))),
              RAdd(RSub(RSub(aSq, bSq), cSq), dSq)>>)

mavlink_quaternion_to_dcm(quat) ==
    LET a == quat[0]
        b == quat[1]
        c == quat[2]
        d == quat[3]
        aSq == RMul(a, a)
        bSq == RMul(b, b)
        cSq == RMul(c, c)
        dSq == RMul(d, d)
    IN  Mat(<<RSub(RSub(RAdd(aSq, bSq), cSq), dSq),
              RMul(Two, RSub(RMul(b, c), RMul(a, d))),
              RMul(Two, RAdd(RMul(a, c), RMul(b, d)))>>,
            <<RMul(Two, RAdd(RMul(b, c), RMul(a, d))),
              RSub(RAdd(RSub(aSq, bSq), cSq), dSq),
              RMul(Two, RSub(RMul(c, d), RMul(a, b)))>>,
            <<RMul(Two, RSub(RMul(b, d), RMul(a, c))),
              RMul(Two, RAdd(RMul(a, b), RMul(c, d))),
              RAdd(RSub(RSub(aSq, bSq), cSq), dSq)>>)

(***************************************************************************)
(* mavlink_dcm_to_quaternion, one definition per statement group.          *)
(***************************************************************************)
\* float tr = dcm[0][0] + dcm[1][1] + dcm[2][2];
Trace(m) == RAdd(RAdd(m[0][0], m[1][1]), m[2][2])

\* if (tr > 0.0f)
TraceBranch(t) == RGt(t, Zero)

\* s = sqrtf(tr + 1.0f);
TraceRoot(t) == RSqrt(RAdd(t, One))

\* quaternion[1..3] of the trace branch, with s already 0.5f / s
TraceStore(m, quat, sv) ==
    LET q1 == [quat EXCEPT ![1] = RMul(RSub(m[2][1], m[1][2]), sv)]
        q2 == [q1   EXCEPT ![2] = RMul(RSub(m[0][2], m[2][0]), sv)]
    IN         [q2   EXCEPT ![3] = RMul(RSub(m[1][0], m[0][1]), sv)]

\* if (dcm[i][i] > dcm[dcm_i][dcm_i]) dcm_i = i;
ScanStep_NonStrict(m, di, n) == IF RGe(m[n][n], m[di][di]) THEN n ELSE di

ScanStep(m, di, n) == IF RGt(m[n][n], m[di][di]) THEN n ELSE di

\* dcm_j = (dcm_i + 1) % 3;
IndexJ(di) == (di + 1) % 3

\* dcm_k = (dcm_i + 2) % 3;
IndexK_Slip(di) == (di + 1) % 3

IndexK(di) == (di + 2) % 3

\* s = sqrtf((dcm[dcm_i][dcm_i] - dcm[dcm_j][dcm_j] - dcm[dcm_k][dcm_k]) + 1.0f);
PivotRoot_SignSlip(m, di, dj, dk) ==
    RSqrt(RAdd(RSub(RAdd(m[di][di], m[dj][dj]), m[dk][dk]), One))

PivotRoot(m, di, dj, dk) ==
    RSqrt(RAdd(RSub(RSub(m[di][di], m[dj][dj]), m[dk][dk]), One))

\* quaternion[dcm_j + 1], quaternion[dcm_k + 1], quaternion[0] of the pivot
\* branch, with s already 0.5f / s
PivotStore_SignSlip(m, quat, di, dj, dk, sv) ==
    LET q1 == [quat EXCEPT ![dj + 1] = RMul(RAdd(m[di][dj], m[dj][di]), sv)]
        q2 == [q1   EXCEPT ![dk + 1] = RMul(RAdd(m[dk][di], m[di][dk]), sv)]
    IN         [q2   EXCEPT ![0]      = RMul(RAdd(m[dk][dj], m[dj][dk]), sv)]

PivotStore(m, quat, di, dj, dk, sv) ==
    LET q1 == [quat EXCEPT ![dj + 1] = RMul(RAdd(m[di][dj], m[dj][di]), sv)]
        q2 == [q1   EXCEPT ![dk + 1] = RMul(RAdd(m[dk][di], m[di][dk]), sv)]
    IN         [q2   EXCEPT ![0]      = RMul(RSub(m[dk][dj], m[dj][dk]), sv)]

(***************************************************************************)
(* Angles and the libm functions on them.                                  *)
(***************************************************************************)
\* the float 0.0f as an angle
AngleZero == [c |-> One, s |-> Zero, k |-> 0]
AngleNaN  == [c |-> NaN, s |-> NaN, k |-> 0]
AngleSurd == [c |-> Surd, s |-> Surd, k |-> 0]
HalfPi      == [c |-> Zero, s |-> One, k |-> 0]
MinusHalfPi == [c |-> Zero, s |-> RNeg(One), k |-> 0]

Cos(a) == a.c
Sin(a) == a.s

\* cos(x / 2.0): non-negative on the principal range, negated one turn further
CosHalf(a) ==
    LET r == RSqrt(RMul(RAdd(One, a.c), Half))
    IN  IF a.k = 0 THEN r ELSE RNeg(r)

\* sin(x / 2.0): has the sign of x on the principal range (sin(pi/2) = 1)
SinHalf(a) ==
    LET r  == RSqrt(RMul(RSub(One, a.c), Half))
        sg == IF RGe(a.s, Zero) THEN r ELSE RNeg(r)
    IN  IF a.k = 0 THEN sg ELSE RNeg(sg)

\* asin(x): the angle in [-pi/2, pi/2] with sine x and cosine sqrt(1 - x*x),
\* NaN outside [-1, 1]
Asin(x) ==
    IF ~IsNum(x) THEN AngleNaN
    ELSE IF x.n > x.d \/ x.n < -x.d THEN AngleNaN
    ELSE LET p == (x.d - x.n) * (x.d + x.n)
             r == ISqrt(p)
         IN  IF r * r = p THEN [c |-> Rat(r, x.d), s |-> x, k |-> 0] ELSE AngleSurd

\* atan2f(y, x): the angle in (-pi, pi] of the direction (x, y); 0 for (0, 0)
\* (the sign of a zero is not modelled).  A direction whose reduced legs exceed
\* 32767 is outside the model's numbers, like an irrational one.
Atan2(y, x) ==
    IF ~IsNum(y) \/ ~IsNum(x) THEN AngleNaN
    ELSE IF y.n = 0 /\ x.n = 0 THEN AngleZero
    ELSE LET g  == GCD(y.d, x.d)
             Y  == y.n * (x.d \div g)
             X  == x.n * (y.d \div g)
             G  == GCD(Abs(Y), Abs(X))
             y0 == Y \div G
             x0 == X \div G
             h2 == x0 * x0 + y0 * y0
             h  == ISqrt(h2)
         IN  IF Abs(x0) > 32767 \/ Abs(y0) > 32767 THEN AngleSurd
             ELSE IF h * h = h2 THEN [c |-> Rat(x0, h), s |-> Rat(y0, h), k |-> 0]
             ELSE AngleSurd

\* 1 - cos(1.0e-3) = 4.99999958e-7 is taken as 1 / BandInv
BandInv == 2000000

\* fabsf(theta - (float)M_PI_2) < 1.0e-3f, i.e. sin(theta) > cos(1.0e-3)
NearPlusHalfPi(theta) ==
    /\ IsNum(theta.s) /\ theta.k = 0
    /\ theta.s.n > 0
    /\ theta.s.d - theta.s.n <= (theta.s.d - 1) \div BandInv

\* fabsf(theta + (float)M_PI_2) < 1.0e-3f, i.e. sin(theta) < -cos(1.0e-3)
NearMinusHalfPi(theta) ==
    /\ IsNum(theta.s) /\ theta.k = 0
    /\ theta.s.n < 0
    /\ theta.s.d + theta.s.n <= (theta.s.d - 1) \div BandInv

\* a float x read as an angle, and an angle plus a float: the model holds
\* these for x = 0.0f only (any other rational number of radians is not a
\* rational point of the circle)
AngleOf(x) == IF x = Zero THEN AngleZero ELSE AngleSurd
AddFloat(a, x) == IF x = Zero THEN a ELSE AngleSurd

Transpose(m) == [r \in 0..2 |-> [c \in 0..2 |-> m[c][r]]]

(***************************************************************************)
(* mavlink_dcm_to_euler                                                    *)
(***************************************************************************)
mavlink_dcm_to_euler_MinusSlip(m) ==
    LET theta == Asin(RNeg(m[2][0]))
    IN  IF NearPlusHalfPi(theta)
        THEN LET phi == Zero
                 psi == AddFloat(Atan2(RSub(m[1][2], m[0][1]),
                                       RAdd(m[0][2], m[1][1])), phi)
             IN  [roll |-> AngleOf(phi), pitch |-> theta, yaw |-> psi]
        ELSE IF NearMinusHalfPi(theta)
        THEN LET phi == Zero
                 psi == Atan2(RSub(m[1][2], m[0][1]),
                              RSub(RSub(m[0][2], m[1][1]), phi))
             IN  [roll |-> AngleOf(phi), pitch |-> theta, yaw |-> psi]
        ELSE [roll  |-> Atan2(m[2][1], m[2][2]),
              pitch |-> theta,
              yaw   |-> Atan2(m[1][0], m[0][0])]

mavlink_dcm_to_euler(m) ==
    LET theta == Asin(RNeg(m[2][0]))
    IN  IF NearPlusHalfPi(theta)
        THEN LET phi == Zero
                 psi == AddFloat(Atan2(RSub(m[1][2], m[0][1]),
                                       RAdd(m[0][2], m[1][1])), phi)
             IN  [roll |-> AngleOf(phi), pitch |-> theta, yaw |-> psi]
        ELSE IF NearMinusHalfPi(theta)
        THEN LET phi == Zero
                 psi == Atan2(RSub(m[1][2], m[0][1]),
                              RSub(RAdd(m[0][2], m[1][1]), phi))
             IN  [roll |-> AngleOf(phi), pitch |-> theta, yaw |-> psi]
        ELSE [roll  |-> Atan2(m[2][1], m[2][2]),
              pitch |-> theta,
              yaw   |-> Atan2(m[1][0], m[0][0])]

(***************************************************************************)
(* mavlink_quaternion_to_euler                                             *)
(***************************************************************************)
mavlink_quaternion_to_euler_Transposed(quat) ==
    mavlink_dcm_to_euler(Transpose(mavlink_quaternion_to_dcm(quat)))

mavlink_quaternion_to_euler(quat) ==
    mavlink_dcm_to_euler(mavlink_quaternion_to_dcm(quat))

(***************************************************************************)
(* mavlink_euler_to_quaternion: the six half-angle locals, then the stores *)
(***************************************************************************)
HalfAngles(roll, pitch, yaw) ==
    [cosPhi_2   |-> CosHalf(roll),  sinPhi_2   |-> SinHalf(roll),
     cosTheta_2 |-> CosHalf(pitch), sinTheta_2 |-> SinHalf(pitch),
     cosPsi_2   |-> CosHalf(yaw),   sinPsi_2   |-> SinHalf(yaw)]

Mul3(x, y, z) == RMul(RMul(x, y), z)

HalfProducts_SignSlip(h) ==
    Vec4(RAdd(Mul3(h.cosPhi_2, h.cosTheta_2, h.cosPsi_2),
              Mul3(h.sinPhi_2, h.sinTheta_2, h.sinPsi_2)),
         RSub(Mul3(h.sinPhi_2, h.cosTheta_2, h.cosPsi_2),
              Mul3(h.cosPhi_2, h.sinTheta_2, h.sinPsi_2)),
         RAdd(Mul3(h.cosPhi_2, h.sinTheta_2, h.cosPsi_2),
              Mul3(h.sinPhi_2, h.cosTheta_2, h.sinPsi_2)),
         RAdd(Mul3(h.cosPhi_2, h.cosTheta_2, h.sinPsi_2),
              Mul3(h.sinPhi_2, h.sinTheta_2, h.cosPsi_2)))

HalfProducts(h) ==
    Vec4(RAdd(Mul3(h.cosPhi_2, h.cosTheta_2, h.cosPsi_2),
              Mul3(h.sinPhi_2, h.sinTheta_2, h.sinPsi_2)),
         RSub(Mul3(h.sinPhi_2, h.cosTheta_2, h.cosPsi_2),
              Mul3(h.cosPhi_2, h.sinTheta_2, h.sinPsi_2)),
         RAdd(Mul3(h.cosPhi_2, h.sinTheta_2, h.cosPsi_2),
              Mul3(h.sinPhi_2, h.cosTheta_2, h.sinPsi_2)),
         RSub(Mul3(h.cosPhi_2, h.cosTheta_2, h.sinPsi_2),
              Mul3(h.sinPhi_2, h.sinTheta_2, h.cosPsi_2)))

mavlink_euler_to_quaternion(roll, pitch, yaw) ==
    HalfProducts(HalfAngles(roll, pitch, yaw))

(***************************************************************************)
(* mavlink_euler_to_dcm                                                    *)
(***************************************************************************)
mavlink_euler_to_dcm_SignSlip(roll, pitch, yaw) ==
    LET cosPhi == Cos(roll)
        sinPhi == Sin(roll)
        cosThe == Cos(pitch)
        sinThe == Sin(pitch)
        cosPsi == Cos(yaw)
        sinPsi == Sin(yaw)
    IN  Mat(<<RMul(cosThe, cosPsi),
              RAdd(RMul(RNeg(cosPhi), sinPsi), Mul3(sinPhi, sinThe, cosPsi)),
              RAdd(RMul(sinPhi, sinPsi), Mul3(cosPhi, sinThe, cosPsi))>>,
            <<RMul(cosThe, sinPsi),
              RAdd(RMul(cosPhi, cosPsi), Mul3(sinPhi, sinThe, sinPsi)),
              RAdd(RMul(RNeg(sinPhi), cosPsi), Mul3(cosPhi, sinThe, sinPsi))>>,
            <<RNeg(sinThe),
              RMul(RNeg(sinPhi), cosThe),
              RMul(cosPhi, cosThe)>>)

mavlink_euler_to_dcm(roll, pitch, yaw) ==
    LET cosPhi == Cos(roll)
        sinPhi == Sin(roll)
        cosThe == Cos(pitch)
        sinThe == Sin(pitch)
        cosPsi == Cos(yaw)
        sinPsi == Sin(yaw)
    IN  Mat(<<RMul(cosThe, cosPsi),
              RAdd(RMul(RNeg(cosPhi), sinPsi), Mul3(sinPhi, sinThe, cosPsi)),
              RAdd(RMul(sinPhi, sinPsi), Mul3(cosPhi, sinThe, cosPsi))>>,
            <<RMul(cosThe, sinPsi),
              RAdd(RMul(cosPhi, cosPsi), Mul3(sinPhi, sinThe, sinPsi)),
              RAdd(RMul(RNeg(sinPhi), cosPsi), Mul3(cosPhi, sinThe, sinPsi))>>,
            <<RNeg(sinThe),
              RMul(sinPhi, cosThe),
              RMul(cosPhi, cosThe)>>)

(***************************************************************************)
(* Inputs of the quaternion pipeline.                                      *)
(***************************************************************************)
SumSq4(v) == v[0] * v[0] + v[1] * v[1] + v[2] * v[2] + v[3] * v[3]

IsSquare(n) == ISqrt(n) * ISqrt(n) = n

UnitQuats ==
    { [n \in 0..3 |-> Rat(v[n], ISqrt(SumSq4(v)))] :
        v \in { w \in [0..3 -> -QMax..QMax] : SumSq4(w) > 0 /\ IsSquare(SumSq4(w)) } }

IntQuats == { [n \in 0..3 |-> Rat(v[n], 1)] : v \in [0..3 -> -IMax..IMax] }

QuatInputs == UnitQuats \cup IntQuats

NoEuler == [roll |-> Uninit, pitch |-> Uninit, yaw |-> Uninit]

Init ==
    /\ pc = "q2dcm"
    /\ qin \in QuatInputs
    /\ euler = NoEuler
    /\ half = <<>>
    /\ dcm = NoMat
    /\ quaternion = NoQuat
    /\ written = <<>>
    /\ tr = Uninit
    /\ s = Uninit
    /\ dcm_i = -1
    /\ i = -1
    /\ dcm_j = -1
    /\ dcm_k = -1
    /\ eout = NoEuler
    /\ dcm2 = NoMat

(***************************************************************************)
(* The caller converts its quaternion to a matrix ...                      *)
(***************************************************************************)
QuaternionToDcm ==
    /\ pc = "q2dcm"
    /\ dcm' = mavlink_quaternion_to_dcm(qin)
    /\ pc' = "d2q_entry"
    /\ UNCHANGED <<euler, half, qin, quaternion, written,
                   tr, s, dcm_i, i, dcm_j, dcm_k, eout, dcm2>>

(***************************************************************************)
(* ... and hands the matrix to mavlink_dcm_to_quaternion.                  *)
(***************************************************************************)
\* lines 147-148 and, in the else branch, 158-160 (dcm_i = 0; i = 1)
D2Q_Trace ==
    /\ pc = "d2q_entry"
    /\ tr' = Trace(dcm)
    /\ IF TraceBranch(tr')
       THEN pc' = "trace_sqrt" /\ UNCHANGED <<dcm_i, i>>
       ELSE pc' = "scan" /\ dcm_i' = 0 /\ i' = 1
    /\ UNCHANGED <<euler, half, qin, dcm, quaternion, written,
                   s, dcm_j, dcm_k, eout, dcm2>>

\* lines 149-150 (the block-local float s shadows the outer one)
D2Q_TraceSqrt ==
    /\ pc = "trace_sqrt"
    /\ s' = TraceRoot(tr)
    /\ quaternion' = [quaternion EXCEPT ![0] = RMul(s', Half)]
    /\ written' = Append(written, 0)
    /\ pc' = "trace_div"
    /\ UNCHANGED <<euler, half, qin, dcm, tr, dcm_i, i, dcm_j, dcm_k, eout, dcm2>>

\* lines 151-154
D2Q_TraceDiv ==
    /\ pc = "trace_div"
    /\ s' = RDiv(Half, s)
    /\ quaternion' = TraceStore(dcm, quaternion, s')
    /\ written' = written \o <<1, 2, 3>>
    /\ pc' = "done"
    /\ UNCHANGED <<euler, half, qin, dcm, tr, dcm_i, i, dcm_j, dcm_k, eout, dcm2>>

\* lines 160-164, one iteration
D2Q_Scan ==
    /\ pc = "scan"
    /\ i < 3
    /\ dcm_i' = ScanStep(dcm, dcm_i, i)
    /\ i' = i + 1
    /\ UNCHANGED <<pc, euler, half, qin, dcm, quaternion, written,
                   tr, s, dcm_j, dcm_k, eout, dcm2>>

\* loop exit and lines 165-169
D2Q_PivotSqrt ==
    /\ pc = "scan"
    /\ ~(i < 3)
    /\ dcm_j' = IndexJ(dcm_i)
    /\ dcm_k' = IndexK(dcm_i)
    /\ s' = PivotRoot(dcm, dcm_i, dcm_j', dcm_k')
    /\ quaternion' = [quaternion EXCEPT ![dcm_i + 1] = RMul(s', Half)]
    /\ written' = Append(written, dcm_i + 1)
    /\ pc' = "pivot_div"
    /\ UNCHANGED <<euler, half, qin, dcm, tr, dcm_i, i, eout, dcm2>>

\* lines 170-173
D2Q_PivotDiv ==
    /\ pc = "pivot_div"
    /\ s' = RDiv(Half, s)
    /\ quaternion' = PivotStore(dcm, quaternion, dcm_i, dcm_j, dcm_k, s')
    /\ written' = written \o <<dcm_j + 1, dcm_k + 1, 0>>
    /\ pc' = "done"
    /\ UNCHANGED <<euler, half, qin, dcm, tr, dcm_i, i, dcm_j, dcm_k, eout, dcm2>>

Next ==
    \/ QuaternionToDcm
    \/ D2Q_Trace
    \/ D2Q_TraceSqrt
    \/ D2Q_TraceDiv
    \/ D2Q_Scan
    \/ D2Q_PivotSqrt
    \/ D2Q_PivotDiv

Spec == Init /\ [][Next]_vars

(***************************************************************************)
(* Helpers of the properties.                                              *)
(***************************************************************************)
QNorm(quat) ==
    RAdd(RAdd(RMul(quat[0], quat[0]), RMul(quat[1], quat[1])),
         RAdd(RMul(quat[2], quat[2]), RMul(quat[3], quat[3])))

IsUnit(quat) == QNorm(quat) = One

QNeg(quat) == [n \in 0..3 |-> RNeg(quat[n])]

MatMul(m1, m2) ==
    [r \in 0..2 |-> [c \in 0..2 |->
        RAdd(RAdd(RMul(m1[r][0], m2[0][c]), RMul(m1[r][1], m2[1][c])),
             RMul(m1[r][2], m2[2][c]))]]

ScaledIdentity(x) == [r \in 0..2 |-> [c \in 0..2 |-> IF r = c THEN x ELSE Zero]]

\* the lowest index among those attaining the maximum of the diagonal
LowestMaxIndex(m) ==
    CHOOSE n \in 0..2 :
        /\ \A k \in 0..2 : RGe(m[n][n], m[k][k])
        /\ \A k \in 0..2 : k < n => RLt(m[k][k], m[n][n])

InD2Q == pc \in {"d2q_entry", "trace_sqrt", "trace_div", "scan", "pivot_div", "done"}

\* the pivot branch is the one whose first store is not quaternion[0]
TookTrace == Len(written) > 0 /\ written[1] = 0
TookPivot == Len(written) > 0 /\ written[1] # 0

(***************************************************************************)
(* C1: round trip quaternion -> matrix -> quaternion.  For every unit      *)
(* quaternion q with q[0] >= 0, the quaternion written by                  *)
(* mavlink_dcm_to_quaternion from mavlink_quaternion_to_dcm(q) is q or -q, *)
(* on the trace branch and on the pivot branch with each pivot.            *)
(***************************************************************************)
C1_RoundTripQuaternion ==
    (pc = "done" /\ IsUnit(qin) /\ RGe(qin[0], Zero))
        => (quaternion = qin \/ quaternion = QNeg(qin))

\* a unit quaternion with w > 0 that goes through the pivot branch with
\* pivot 2 and comes back as -q
C1_Witness ==
    /\ pc = "done" /\ IsUnit(qin) /\ RGt(qin[0], Zero)
    /\ TookPivot /\ dcm_i = 2
    /\ quaternion = QNeg(qin) /\ quaternion # qin

(***************************************************************************)
(* C2: orthonormality.  The matrix R written by mavlink_quaternion_to_dcm  *)
(* from a quaternion of squared norm N satisfies R*R^T = R^T*R = N^2 * I;  *)
(* for a unit quaternion that is the identity matrix, i.e. rows and        *)
(* columns have unit norm and distinct ones have dot product 0.            *)
(***************************************************************************)
C2_Orthonormal ==
    InD2Q =>
        LET N  == QNorm(qin)
            N2 == RMul(N, N)
        IN  /\ MatMul(dcm, Transpose(dcm)) = ScaledIdentity(N2)
            /\ MatMul(Transpose(dcm), dcm) = ScaledIdentity(N2)
            /\ IsUnit(qin) => MatMul(dcm, Transpose(dcm)) = ScaledIdentity(One)

\* a unit quaternion with no zero component has been converted
C2_Witness ==
    /\ pc = "d2q_entry" /\ IsUnit(qin)
    /\ \A n \in 0..3 : qin[n] # Zero
    /\ dcm # ScaledIdentity(One)

(***************************************************************************)
(* C7: branch selection and tie-break of mavlink_dcm_to_quaternion.  The   *)
(* trace branch is taken exactly when tr = R00+R11+R22 > 0; otherwise the  *)
(* pivot is the lowest index attaining the maximum of the diagonal, with   *)
(* j = (i+1) mod 3, k = (i+2) mod 3, and component i+1 is set to s/2 with  *)
(* s = sqrt(R[i][i] - R[j][j] - R[k][k] + 1).                              *)
(***************************************************************************)
C7_BranchAndTieBreak ==
    /\ pc \in {"trace_sqrt", "trace_div", "scan", "pivot_div", "done"}
          => tr = Trace(dcm)
    /\ pc \in {"trace_sqrt", "trace_div"} => RGt(Trace(dcm), Zero)
    /\ pc \in {"scan", "pivot_div"} => ~RGt(Trace(dcm), Zero)
    /\ pc = "done" => (TookTrace <=> RGt(Trace(dcm), Zero))
    /\ (pc \in {"pivot_div", "done"} /\ TookPivot) =>
          LET p == LowestMaxIndex(dcm)
              j == (p + 1) % 3
              k == (p + 2) % 3
              root == RSqrt(RAdd(RSub(RSub(dcm[p][p], dcm[j][j]), dcm[k][k]), One))
          IN  /\ dcm_i = p /\ dcm_j = j /\ dcm_k = k
              /\ written[1] = p + 1
              /\ quaternion[p + 1] = RMul(root, Half)

\* a rotation matrix with tr <= 0 whose diagonal maximum is attained at
\* indices 1 and 2 but not 0: the pivot is 1
C7_Witness ==
    /\ pc = "done" /\ IsUnit(qin) /\ TookPivot
    /\ dcm[1][1] = dcm[2][2] /\ RGt(dcm[1][1], dcm[0][0])
    /\ dcm_i = 1

(***************************************************************************)
(* C8: on the image of a unit quaternion the radicand of the selected      *)
(* branch is >= 1, so the square root s is a number >= 1 and 0.5/s is      *)
(* finite: no square root of a negative number, no division by zero.       *)
(***************************************************************************)
C8_RootAndQuotientDefined ==
    IsUnit(qin) =>
        /\ pc = "trace_div" =>
              /\ RGe(RAdd(Trace(dcm), One), One)
              /\ IsNum(s) /\ RGe(s, One)
              /\ RMul(s, s) = RAdd(Trace(dcm), One)
        /\ pc = "pivot_div" =>
              LET rad == RAdd(RSub(RSub(dcm[dcm_i][dcm_i], dcm[dcm_j][dcm_j]),
                                   dcm[dcm_k][dcm_k]), One)
              IN  /\ RGe(rad, One)
                  /\ IsNum(s) /\ RGe(s, One)
                  /\ RMul(s, s) = rad
        /\ pc = "done" =>
              /\ IsNum(s) /\ RGt(s, Zero) /\ RGe(Half, s)
              /\ \A n \in 0..3 : IsNum(quaternion[n])

\* the pivot branch has taken the root of a radicand that is exactly 1
\* (tr = 0, all diagonal elements equal)
C8_Witness ==
    /\ pc = "pivot_div" /\ IsUnit(qin)
    /\ Trace(dcm) = Zero
    /\ s = One

(***************************************************************************)
(* C10: mavlink_dcm_to_quaternion defines its whole output on every path:  *)
(* the indices stored are 0..3, each exactly once, the matrix indices used *)
(* are in 0..2, and the input matrix is left as it was handed in.          *)
(***************************************************************************)
C10_OutputFullyDefined ==
    /\ \A m, n \in 1..Len(written) :
          written[m] \in 0..3 /\ (m # n => written[m] # written[n])
    /\ pc = "done" =>
          /\ { written[n] : n \in 1..Len(written) } = 0..3
          /\ \A n \in 0..3 : quaternion[n] # Uninit
    /\ pc = "scan" => dcm_i \in 0..2 /\ i \in 1..3
    /\ (pc \in {"pivot_div", "done"} /\ TookPivot) =>
          /\ dcm_i \in 0..2 /\ dcm_j \in 0..2 /\ dcm_k \in 0..2
          /\ {dcm_i, dcm_j, dcm_k} = 0..2
    /\ InD2Q => dcm = mavlink_quaternion_to_dcm(qin)

\* the pivot branch has finished with pivot 1: stores 2, 3, 1, 0
C10_Witness ==
    /\ pc = "done" /\ written = <<2, 3, 1, 0>>

(***************************************************************************)
(* Inputs of the Euler pipelines.                                          *)
(***************************************************************************)
\* the rational points of the unit circle with legs up to AMax
CirclePoints ==
    { [c |-> Rat(v[1], ISqrt(v[1] * v[1] + v[2] * v[2])),
       s |-> Rat(v[2], ISqrt(v[1] * v[1] + v[2] * v[2]))] :
        v \in { w \in (-AMax..AMax) \X (-AMax..AMax) :
                  /\ w[1] * w[1] + w[2] * w[2] > 0
                  /\ IsSquare(w[1] * w[1] + w[2] * w[2]) } }

\* angles in (-pi, pi] whose cosine and sine are rational
FullAngles == { [c |-> p.c, s |-> p.s, k |-> 0] : p \in CirclePoints }

\* the angle 2*alpha in (-2*pi, 2*pi] for alpha in (-pi, pi] the angle of p
Double(p) ==
    [c |-> RSub(RMul(p.c, p.c), RMul(p.s, p.s)),
     s |-> RMul(Two, RMul(p.c, p.s)),
     k |-> IF p.c.n > 0 \/ (p.c.n = 0 /\ p.s.n > 0) THEN 0 ELSE 1]

\* angles whose half angle has rational cosine and sine
HalfRatAngles == { Double(p) : p \in CirclePoints }

\* pitch = +-(pi/2 - delta) with tan(delta/2) = 1/NearLockM: inside the
\* 1e-3 band but not +-pi/2
NearLockAngles ==
    LET c == Rat(2 * NearLockM, NearLockM * NearLockM + 1)
        sn == Rat(NearLockM * NearLockM - 1, NearLockM * NearLockM + 1)
    IN  { [c |-> c, s |-> sn, k |-> 0], [c |-> c, s |-> RNeg(sn), k |-> 0] }

InitRest ==
    /\ half = <<>>
    /\ qin = NoQuat
    /\ dcm = NoMat
    /\ quaternion = NoQuat
    /\ written = <<>>
    /\ tr = Uninit
    /\ s = Uninit
    /\ dcm_i = -1
    /\ i = -1
    /\ dcm_j = -1
    /\ dcm_k = -1
    /\ eout = NoEuler
    /\ dcm2 = NoMat

(***************************************************************************)
(* Euler -> quaternion -> Euler, and the matrix of the same angles.        *)
(***************************************************************************)
InitEQ ==
    /\ pc = "e2q"
    /\ euler \in [roll : HalfRatAngles, pitch : HalfRatAngles, yaw : HalfRatAngles]
    /\ InitRest

\* mavlink_euler_to_quaternion, lines 120-125
E2Q_Half ==
    /\ pc = "e2q"
    /\ half' = HalfAngles(euler.roll, euler.pitch, euler.yaw)
    /\ pc' = "e2q_store"
    /\ UNCHANGED <<euler, qin, dcm, quaternion, written,
                   tr, s, dcm_i, i, dcm_j, dcm_k, eout, dcm2>>

\* mavlink_euler_to_quaternion, lines 126-133
E2Q_Store ==
    /\ pc = "e2q_store"
    /\ qin' = HalfProducts(half)
    /\ pc' = "q2e"
    /\ UNCHANGED <<euler, half, dcm, quaternion, written,
                   tr, s, dcm_i, i, dcm_j, dcm_k, eout, dcm2>>

\* mavlink_quaternion_to_euler on the quaternion just written
QuaternionToEuler ==
    /\ pc = "q2e"
    /\ eout' = mavlink_quaternion_to_euler(qin)
    /\ pc' = "ref"
    /\ UNCHANGED <<euler, half, qin, dcm, quaternion, written,
                   tr, s, dcm_i, i, dcm_j, dcm_k, dcm2>>

\* mavlink_euler_to_dcm on the original angles
EulerToDcmRef ==
    /\ pc = "ref"
    /\ dcm' = mavlink_euler_to_dcm(euler.roll, euler.pitch, euler.yaw)
    /\ pc' = "done"
    /\ UNCHANGED <<euler, half, qin, quaternion, written,
                   tr, s, dcm_i, i, dcm_j, dcm_k, eout, dcm2>>

NextEQ ==
    \/ E2Q_Half
    \/ E2Q_Store
    \/ QuaternionToEuler
    \/ EulerToDcmRef

SpecEQ == InitEQ /\ [][NextEQ]_vars

(***************************************************************************)
(* Euler -> matrix -> Euler -> matrix.                                     *)
(***************************************************************************)
InitED ==
    /\ pc = "e2d"
    /\ euler \in [roll : FullAngles, pitch : FullAngles \cup NearLockAngles,
                  yaw : FullAngles]
    /\ InitRest

EulerToDcm ==
    /\ pc = "e2d"
    /\ dcm' = mavlink_euler_to_dcm(euler.roll, euler.pitch, euler.yaw)
    /\ pc' = "d2e"
    /\ UNCHANGED <<euler, half, qin, quaternion, written,
                   tr, s, dcm_i, i, dcm_j, dcm_k, eout, dcm2>>

DcmToEuler ==
    /\ pc = "d2e"
    /\ eout' = mavlink_dcm_to_euler(dcm)
    /\ pc' = "back"
    /\ UNCHANGED <<euler, half, qin, dcm, quaternion, written,
                   tr, s, dcm_i, i, dcm_j, dcm_k, dcm2>>

EulerToDcmBack ==
    /\ pc = "back"
    /\ dcm2' = mavlink_euler_to_dcm(eout.roll, eout.pitch, eout.yaw)
    /\ pc' = "done"
    /\ UNCHANGED <<euler, half, qin, dcm, quaternion, written,
                   tr, s, dcm_i, i, dcm_j, dcm_k, eout>>

NextED ==
    \/ EulerToDcm
    \/ DcmToEuler
    \/ EulerToDcmBack

SpecED == InitED /\ [][NextED]_vars

\* every number the Euler pipelines have computed is a rational of the model
AllExact ==
    /\ \A n \in 0..3 : qin[n] = Uninit \/ IsNum(qin[n])
    /\ \A r, c \in 0..2 : (dcm[r][c] = Uninit \/ IsNum(dcm[r][c]))
                       /\ (dcm2[r][c] = Uninit \/ IsNum(dcm2[r][c]))
    /\ eout = NoEuler \/ (IsNum(eout.roll.c) /\ IsNum(eout.pitch.c) /\ IsNum(eout.yaw.c))

(***************************************************************************)
(* Helpers of the Euler properties.                                        *)
(***************************************************************************)
Sq(x) == RMul(x, x)

\* the angle is a principal value, in (-pi, pi]
Principal(a) == a.k = 0

\* pitch within the 1e-3 band around +pi/2 or -pi/2
InBand(a) == NearPlusHalfPi(a) \/ NearMinusHalfPi(a)

\* pitch strictly inside (-pi/2, pi/2)
InsideHalfPi(a) == a.k = 0 /\ RGt(a.c, Zero)

(***************************************************************************)
(* C3: unit norm.  For every (roll, pitch, yaw), angles beyond (-pi, pi]   *)
(* included, the quaternion written by mavlink_euler_to_quaternion has     *)
(* w^2+x^2+y^2+z^2 = 1, and that sum of squares equals                     *)
(* (cPhi^2+sPhi^2)(cTheta^2+sTheta^2)(cPsi^2+sPsi^2) of the six half-angle *)
(* values the function computed.                                           *)
(***************************************************************************)
C3_UnitNorm ==
    pc \in {"q2e", "ref", "done"} =>
        /\ QNorm(qin) = One
        /\ QNorm(qin) =
              Mul3(RAdd(Sq(half.cosPhi_2), Sq(half.sinPhi_2)),
                   RAdd(Sq(half.cosTheta_2), Sq(half.sinTheta_2)),
                   RAdd(Sq(half.cosPsi_2), Sq(half.sinPsi_2)))

\* a quaternion has been written from three angles of which roll is beyond
\* (-pi, pi], pitch is beyond [-pi/2, pi/2], and no half-angle value is 0
C3_Witness ==
    /\ pc = "q2e"
    /\ euler.roll.k = 1 /\ RLt(euler.pitch.c, Zero)
    /\ \A f \in DOMAIN half : half[f] # Zero

(***************************************************************************)
(* C4: gimbal-lock policy of mavlink_dcm_to_euler.  pitch is               *)
(* asin(-R[2][0]); in the band around +pi/2 or -pi/2 roll is 0 and yaw is  *)
(* atan2(R[1][2]-R[0][1], R[0][2]+R[1][1]); otherwise roll is              *)
(* atan2(R[2][1], R[2][2]) and yaw is atan2(R[1][0], R[0][0]).  A matrix   *)
(* built by mavlink_euler_to_dcm with pitch exactly pi/2 takes the band    *)
(* branch and gets roll 0.                                                 *)
(***************************************************************************)
C4_GimbalLockPolicy ==
    pc \in {"back", "done"} =>
        LET theta == Asin(RNeg(dcm[2][0]))
        IN  /\ eout.pitch = theta
            /\ IF InBand(theta)
               THEN /\ eout.roll = AngleZero
                    /\ eout.yaw = Atan2(RSub(dcm[1][2], dcm[0][1]),
                                        RAdd(dcm[0][2], dcm[1][1]))
               ELSE /\ eout.roll = Atan2(dcm[2][1], dcm[2][2])
                    /\ eout.yaw = Atan2(dcm[1][0], dcm[0][0])
            /\ euler.pitch = HalfPi =>
                  InBand(theta) /\ eout.roll = AngleZero /\ eout.pitch = HalfPi

\* pitch exactly pi/2 with a roll that is not 0: roll 0 and a yaw that is
\* not 0 come back
C4_Witness ==
    /\ pc = "back"
    /\ euler.pitch = HalfPi /\ euler.roll # AngleZero
    /\ eout.roll = AngleZero /\ eout.yaw # AngleZero /\ eout.yaw # euler.yaw

(***************************************************************************)
(* C5 as stated: for roll and yaw in (-pi, pi] and every pitch outside the *)
(* 1e-3 band around +-pi/2, mavlink_quaternion_to_euler of                 *)
(* mavlink_euler_to_quaternion(r,p,y) returns (r,p,y).                     *)
(***************************************************************************)
C5_AsStated ==
    (/\ pc \in {"ref", "done"}
     /\ Principal(euler.roll) /\ Principal(euler.yaw)
     /\ Principal(euler.pitch) /\ ~InBand(euler.pitch))
        => eout = euler

(***************************************************************************)
(* C5 amended: for roll and yaw in (-pi, pi] and pitch strictly inside     *)
(* (-pi/2, pi/2) and outside the 1e-3 band, the round trip returns         *)
(* (r,p,y); mavlink_quaternion_to_euler is mavlink_dcm_to_euler of         *)
(* mavlink_quaternion_to_dcm; and for every (r,p,y) the matrix of          *)
(* mavlink_euler_to_quaternion(r,p,y) is mavlink_euler_to_dcm(r,p,y).      *)
(***************************************************************************)
C5_RoundTripEulerQuaternion ==
    /\ (/\ pc \in {"ref", "done"}
        /\ Principal(euler.roll) /\ Principal(euler.yaw)
        /\ InsideHalfPi(euler.pitch) /\ ~InBand(euler.pitch))
           => eout = euler
    /\ pc \in {"ref", "done"}
           => eout = mavlink_dcm_to_euler(mavlink_quaternion_to_dcm(qin))
    /\ pc = "done" => mavlink_quaternion_to_dcm(qin) = dcm

\* a round trip with three non-zero angles, pitch inside (-pi/2, pi/2)
C5_Witness ==
    /\ pc = "done"
    /\ Principal(euler.roll) /\ Principal(euler.yaw)
    /\ InsideHalfPi(euler.pitch) /\ ~InBand(euler.pitch)
    /\ euler.roll.s # Zero /\ euler.pitch.s # Zero /\ euler.yaw.s # Zero
    /\ eout = euler

(***************************************************************************)
(* C6 as stated: for roll and yaw in (-pi, pi] and every pitch strictly    *)
(* inside (-pi/2, pi/2), mavlink_dcm_to_euler of mavlink_euler_to_dcm      *)
(* takes the regular branch and returns (r,p,y).                           *)
(***************************************************************************)
C6_AsStated ==
    (pc \in {"back", "done"} /\ InsideHalfPi(euler.pitch))
        => (~InBand(eout.pitch) /\ eout = euler)

(***************************************************************************)
(* C6 amended: the same for every pitch strictly inside (-pi/2, pi/2) that *)
(* is not within 1e-3 of +pi/2 or -pi/2.                                   *)
(***************************************************************************)
C6_RoundTripEulerDcm ==
    (pc \in {"back", "done"} /\ InsideHalfPi(euler.pitch) /\ ~InBand(euler.pitch))
        => (~InBand(eout.pitch) /\ eout = euler)

\* a round trip through the regular branch with three non-zero angles
C6_Witness ==
    /\ pc = "back"
    /\ InsideHalfPi(euler.pitch) /\ ~InBand(euler.pitch)
    /\ euler.roll.s # Zero /\ euler.pitch.s # Zero /\ euler.yaw.s # Zero
    /\ RLt(euler.roll.c, Zero)
    /\ eout = euler

(***************************************************************************)
(* C9: at gimbal lock the returned angles still describe the rotation:     *)
(* for every rotation matrix R with R[2][0] = -1 or R[2][0] = +1,          *)
(* mavlink_euler_to_dcm(mavlink_dcm_to_euler(R)) = R.                      *)
(***************************************************************************)
C9_GimbalLockRecoversMatrix ==
    (pc = "done" /\ (dcm[2][0] = One \/ dcm[2][0] = RNeg(One))) => dcm2 = dcm

\* the half of C9 that the code satisfies: the +pi/2 branch, R[2][0] = -1
C9_PlusBranchRecoversMatrix ==
    (pc = "done" /\ dcm[2][0] = RNeg(One)) => dcm2 = dcm

====
